---- MODULE Spec2Model ----
(***************************************************************************)
(* Model of the subcommand utilities of client/cli/src/commands/utils.rs:  *)
(* read_uri, print_from_uri, format_seed / format_public_key /             *)
(* format_account_id, decode_hex, read_message and the with_crypto_scheme  *)
(* dispatch.                                                               *)
(*                                                                         *)
(* Strings handled character by character (file contents, hex text) are    *)
(* sequences of one-character strings.  Key identifiers handed to the key  *)
(* capability are records [form, body]: the form is the syntactic shape of *)
(* the string and the body its payload bytes.  Option<T> is a sequence of  *)
(* length 0 (None) or 1 (Some).                                            *)
(***************************************************************************)
EXTENDS Integers, Sequences, FiniteSets, TLC

VARIABLES
    \* ---- print_from_uri ----
    scheme,            \* CryptoScheme selected by with_crypto_scheme!
    uri,               \* uri: &str
    password,          \* password: Option<SecretString>
    network_override,  \* network_override: Ss58AddressFormat
    network_supplied,  \* whether the caller was given the network explicitly
    output,            \* output: OutputType
    pc,                \* position inside print_from_uri
    attempted,         \* the stages called so far, in call order
    stdout,            \* what println! has written so far
    \* ---- read_uri ----
    uri_arg,           \* uri: Option<&String>
    fs,                \* the filesystem: at most one entry, Option<[path, ..]>
    tty,               \* what the terminal prompt will deliver
    prompted,          \* the prompts written to the terminal
    uri_result,        \* Option<error::Result<String>>
    \* ---- read_message / decode_hex ----
    msg,               \* msg: Option<&String>
    should_decode,     \* should_decode: bool
    stdin,             \* what standard input will deliver
    stdin_read,        \* whether standard input has been read
    msg_result         \* Option<outcome of read_message>

printVars == <<scheme, uri, password, network_override, network_supplied,
               output, pc, attempted, stdout>>
uriVars   == <<uri_arg, fs, tty, prompted, uri_result>>
msgVars   == <<msg, should_decode, stdin, stdin_read, msg_result>>
vars      == <<printVars, uriVars, msgVars>>

----------------------------------------------------------------------------
(* Bounds *)

MaxEntropy  == 1   \* mnemonic phrases carry entropy 0..MaxEntropy
MaxSeedByte == 1   \* bytes of a raw hex seed range over 0..MaxSeedByte
MaxKeyByte  == 1   \* the varying byte of a public key ranges over 0..MaxKeyByte
MaxPassword == 1   \* passwords are 1..MaxPassword
MaxPathLen  == 2   \* length of the read_uri argument and of file paths
MaxTextLen  == 3   \* length of file contents and of terminal input
MaxHexLen   == 3   \* length of the message argument and of standard input

----------------------------------------------------------------------------
(* Option and Result values *)

None      == <<>>
Some(x)   == <<x>>
IsSome(o) == o # <<>>
Unwrap(o) == o[1]

----------------------------------------------------------------------------
(* The key capability of a scheme (sp_core::Pair, Ss58Codec, MultiSigner) *)

CryptoScheme == {"Ecdsa", "Sr25519", "Ed25519"}

\* Ss58AddressFormat: the known formats, by version byte.
Versions == {0, 2, 42}

\* Ss58AddressFormat::default()
DefaultVersion == 42

\* String::from(Ss58AddressFormat)
NetworkName(v) ==
    CASE v = 0  -> "polkadot"
      [] v = 2  -> "kusama"
      [] v = 42 -> "substrate"

\* Length of Pair::Public, scaled: 33 bytes for ecdsa becomes 2, 32 becomes 1.
PublicLen(s) == IF s = "Ecdsa" THEN 2 ELSE 1

\* The public keys of a scheme (ecdsa keys are compressed points: the
\* leading byte is 2 or 3).
PublicKeys(s) ==
    IF s = "Ecdsa"
    THEN {<<p, b>> : p \in {2, 3}, b \in 0..MaxKeyByte}
    ELSE {<<b>> : b \in 0..MaxKeyByte}

RECURSIVE SumBytes(_)
SumBytes(bytes) ==
    IF bytes = <<>> THEN 0 ELSE bytes[1] + 3 * SumBytes(Tail(bytes))

\* The checksum of an SS58 payload (stands for the blake2b prefix).
Checksum(data) == (SumBytes(data) + 7) % 256

\* Ss58Codec::to_ss58check_with_version
to_ss58check_with_version(bytes, v) ==
    [form |-> "ss58", body |-> <<v>> \o bytes \o <<Checksum(<<v>> \o bytes)>>]

\* Ss58Codec::to_ss58check: the default address format.
to_ss58check(bytes) == to_ss58check_with_version(bytes, DefaultVersion)

\* A capability call that failed, with the error it reports.
Err(e) == [ok |-> FALSE, error |-> e]

\* Pair::from_seed followed by an optional derivation junction.
PairOf(seed, junction) ==
    [secret |-> IF junction = <<>> THEN seed
                ELSE <<(seed[1] + junction[1]) % 256, seed[2]>>]

\* Pair::public
public(s, pair) ==
    LET b == (pair.secret[1] + pair.secret[2]) % (MaxKeyByte + 1)
    IN  IF s = "Ecdsa" THEN <<2 + (pair.secret[1] % 2), b>> ELSE <<b>>

\* MultiSigner::into_account: the key itself, or its hash for ecdsa.
into_account(s, pk) ==
    IF s = "Ecdsa" THEN <<(5 * SumBytes(pk) + 1) % 256>> ELSE pk

\* The seed a mnemonic phrase and a password derive.
PhraseSeed(id, pw) == <<id.body[1], IF IsSome(pw) THEN Unwrap(pw) ELSE 0>>

\* Pair::from_phrase: only a bare mnemonic phrase is accepted.
from_phrase(s, id, pw) ==
    IF id.form = "mnemonic"
    THEN [ok |-> TRUE, pair |-> PairOf(PhraseSeed(id, pw), <<>>),
          seed |-> PhraseSeed(id, pw)]
    ELSE Err("InvalidPhrase")

\* Pair::from_string_with_seed: a phrase, or a raw hex seed, optionally
\* followed by a derivation junction (1: derivable, 2: malformed).
from_string_with_seed(s, id, pw) ==
    CASE id.form = "mnemonic" ->
           [ok |-> TRUE, pair |-> PairOf(PhraseSeed(id, pw), <<>>),
            seed |-> Some(PhraseSeed(id, pw))]
      [] id.form = "seed" /\ Len(id.body) = 2 ->
           [ok |-> TRUE, pair |-> PairOf(id.body, <<>>), seed |-> Some(id.body)]
      [] id.form = "seed" /\ Len(id.body) = 3 /\ id.body[3] = 1 ->
           [ok |-> TRUE, pair |-> PairOf(SubSeq(id.body, 1, 2), <<id.body[3]>>),
            seed |-> None]
      [] id.form = "seed" -> Err("InvalidPath")
      [] OTHER -> Err("InvalidFormat")

\* Ss58Codec::from_string_with_version: length, version and checksum must fit.
from_string_with_version(s, id) ==
    LET n == Len(id.body) IN
    IF id.form # "ss58" THEN Err("BadBase58")
    ELSE IF n # PublicLen(s) + 2 THEN Err("BadLength")
    ELSE IF id.body[n] # Checksum(SubSeq(id.body, 1, n - 1)) THEN Err("InvalidChecksum")
    ELSE IF id.body[1] \notin Versions THEN Err("UnknownVersion")
    ELSE [ok |-> TRUE, public |-> SubSeq(id.body, 2, n - 1), version |-> id.body[1]]

----------------------------------------------------------------------------
(* The identifiers the model resolves *)

Junctions == {<<>>, <<1>>, <<2>>}

Mnemonics == {[form |-> "mnemonic", body |-> <<e>>] : e \in 0..MaxEntropy}

SeedUris ==
    {[form |-> "seed", body |-> <<a, b>> \o j] :
        a \in 0..MaxSeedByte, b \in 0..MaxSeedByte, j \in Junctions}

\* The version bytes an address string may carry: 1 is no known format.
VersionBytes == Versions \cup {1}

AllPublicKeys == UNION {PublicKeys(s) : s \in CryptoScheme}

Addresses ==
    {to_ss58check_with_version(pk, v) :
        pk \in AllPublicKeys, v \in VersionBytes}

\* An address with one wrong checksum byte.
Corrupt(a) ==
    [form |-> "ss58",
     body |-> [a.body EXCEPT ![Len(a.body)] = (a.body[Len(a.body)] + 1) % 256]]

Junk == {[form |-> "junk", body |-> <<>>]}

Identifiers ==
    Mnemonics \cup SeedUris \cup Addresses \cup {Corrupt(a) : a \in Addresses}
    \cup Junk

Passwords == {None} \cup {Some(p) : p \in 1..MaxPassword}

OutputType == {"Json", "Text"}

----------------------------------------------------------------------------
(* Formatting *)

HexDigit == <<"0", "1", "2", "3", "4", "5", "6", "7",
              "8", "9", "a", "b", "c", "d", "e", "f">>

\* HexDisplay::from(bytes): two lowercase digits per byte.
RECURSIVE HexDisplay(_)
HexDisplay(bytes) ==
    IF bytes = <<>> THEN <<>>
    ELSE <<HexDigit[(bytes[1] \div 16) + 1], HexDigit[(bytes[1] % 16) + 1]>>
         \o HexDisplay(Tail(bytes))

\* format!("0x{}", HexDisplay::from(&seed.as_ref()))
format_seed(seed) == <<"0", "x">> \o HexDisplay(seed)

\* format!("0x{}", HexDisplay::from(&public_key.as_ref()))
format_public_key(public_key) == <<"0", "x">> \o HexDisplay(public_key)

\* format!("0x{}", HexDisplay::from(&public_key.into().into_account().as_ref()))
format_account_id(s, public_key) ==
    <<"0", "x">> \o HexDisplay(into_account(s, public_key))

\* The literal "n/a".
NotAvailable == <<"n", "/", "a">>

----------------------------------------------------------------------------
(* print_from_uri *)

InvalidLine == [mode |-> "Line", text |-> "Invalid phrase/URI given"]

\* Variant: the phrase branch renders the address with the override.
PhraseOutput_Override(s, u, r, net, mode) ==
    LET public_key == public(s, r.pair) IN
    IF mode = "Json"
    THEN [mode |-> "Json",
          obj  |-> [secretPhrase |-> u,
                    secretSeed   |-> format_seed(r.seed),
                    publicKey    |-> format_public_key(public_key),
                    accountId    |-> format_account_id(s, public_key),
                    ss58Address  |-> to_ss58check_with_version(
                                         into_account(s, public(s, r.pair)), net)]]
    ELSE [mode   |-> "Text",
          header |-> "Secret phrase",
          uri    |-> u,
          lines  |-> << <<"Secret seed", format_seed(r.seed)>>,
                        <<"Public key (hex)", format_public_key(public_key)>>,
                        <<"Account ID", format_account_id(s, public_key)>>,
                        <<"SS58 Address",
                          to_ss58check_with_version(
                              into_account(s, public(s, r.pair)), net)>> >>]

\* The branch of a successful Pair::from_phrase (r is its result).
PhraseOutput(s, u, r, net, mode) ==
    LET public_key == public(s, r.pair) IN
    IF mode = "Json"
    THEN [mode |-> "Json",
          obj  |-> [secretPhrase |-> u,
                    secretSeed   |-> format_seed(r.seed),
                    publicKey    |-> format_public_key(public_key),
                    accountId    |-> format_account_id(s, public_key),
                    ss58Address  |-> to_ss58check(into_account(s, public(s, r.pair)))]]
    ELSE [mode   |-> "Text",
          header |-> "Secret phrase",
          uri    |-> u,
          lines  |-> << <<"Secret seed", format_seed(r.seed)>>,
                        <<"Public key (hex)", format_public_key(public_key)>>,
                        <<"Account ID", format_account_id(s, public_key)>>,
                        <<"SS58 Address",
                          to_ss58check(into_account(s, public(s, r.pair)))>> >>]

\* Variant: an absent seed is printed as a seed of zero bytes.
UriOutput_ZeroSeed(s, u, r, net, mode) ==
    LET public_key == public(s, r.pair)
        seed       == IF IsSome(r.seed) THEN Unwrap(r.seed) ELSE <<0, 0>>
    IN
    IF mode = "Json"
    THEN [mode |-> "Json",
          obj  |-> [secretKeyUri |-> u,
                    secretSeed   |-> format_seed(seed),
                    publicKey    |-> format_public_key(public_key),
                    accountId    |-> format_account_id(s, public_key),
                    ss58Address  |-> to_ss58check(into_account(s, public(s, r.pair)))]]
    ELSE [mode   |-> "Text",
          header |-> "Secret Key URI",
          uri    |-> u,
          lines  |-> << <<"Secret seed", format_seed(seed)>>,
                        <<"Public key (hex)", format_public_key(public_key)>>,
                        <<"Account ID", format_account_id(s, public_key)>>,
                        <<"SS58 Address",
                          to_ss58check(into_account(s, public(s, r.pair)))>> >>]

\* Variant: the URI branch labels the identifier as a secret phrase.
UriOutput_PhraseKey(s, u, r, net, mode) ==
    LET public_key == public(s, r.pair) IN
    IF mode = "Json"
    THEN [mode |-> "Json",
          obj  |-> [secretPhrase |-> u,
                    secretSeed   |-> IF IsSome(r.seed) THEN format_seed(Unwrap(r.seed))
                                     ELSE NotAvailable,
                    publicKey    |-> format_public_key(public_key),
                    accountId    |-> format_account_id(s, public_key),
                    ss58Address  |-> to_ss58check(into_account(s, public(s, r.pair)))]]
    ELSE [mode   |-> "Text",
          header |-> "Secret phrase",
          uri    |-> u,
          lines  |-> << <<"Secret seed",
                          IF IsSome(r.seed) THEN format_seed(Unwrap(r.seed))
                          ELSE NotAvailable>>,
                        <<"Public key (hex)", format_public_key(public_key)>>,
                        <<"Account ID", format_account_id(s, public_key)>>,
                        <<"SS58 Address",
                          to_ss58check(into_account(s, public(s, r.pair)))>> >>]

\* The branch of a successful Pair::from_string_with_seed.
UriOutput(s, u, r, net, mode) ==
    LET public_key == public(s, r.pair) IN
    IF mode = "Json"
    THEN [mode |-> "Json",
          obj  |-> [secretKeyUri |-> u,
                    secretSeed   |-> IF IsSome(r.seed) THEN format_seed(Unwrap(r.seed))
                                     ELSE NotAvailable,
                    publicKey    |-> format_public_key(public_key),
                    accountId    |-> format_account_id(s, public_key),
                    ss58Address  |-> to_ss58check(into_account(s, public(s, r.pair)))]]
    ELSE [mode   |-> "Text",
          header |-> "Secret Key URI",
          uri    |-> u,
          lines  |-> << <<"Secret seed",
                          IF IsSome(r.seed) THEN format_seed(Unwrap(r.seed))
                          ELSE NotAvailable>>,
                        <<"Public key (hex)", format_public_key(public_key)>>,
                        <<"Account ID", format_account_id(s, public_key)>>,
                        <<"SS58 Address",
                          to_ss58check(into_account(s, public(s, r.pair)))>> >>]

\* Variant: the public-key branch renders the address in the default format.
PublicOutput_DefaultAddress(s, u, r, net, mode) ==
    LET public_key == r.public
        v          == net
    IN
    IF mode = "Json"
    THEN [mode |-> "Json",
          obj  |-> [publicKeyUri |-> u,
                    networkId    |-> NetworkName(v),
                    publicKey    |-> format_public_key(public_key),
                    accountId    |-> format_account_id(s, public_key),
                    ss58Address  |-> to_ss58check(public_key)]]
    ELSE [mode   |-> "Text",
          header |-> "Public Key URI",
          uri    |-> u,
          lines  |-> << <<"Network ID/version", NetworkName(v)>>,
                        <<"Public key (hex)", format_public_key(public_key)>>,
                        <<"Account ID", format_account_id(s, public_key)>>,
                        <<"SS58 Address", to_ss58check(public_key)>> >>]

\* The branch of a successful Public::from_string_with_version: the parsed
\* version is bound to _v and v is the override.
PublicOutput(s, u, r, net, mode) ==
    LET public_key == r.public
        v          == net
    IN
    IF mode = "Json"
    THEN [mode |-> "Json",
          obj  |-> [publicKeyUri |-> u,
                    networkId    |-> NetworkName(v),
                    publicKey    |-> format_public_key(public_key),
                    accountId    |-> format_account_id(s, public_key),
                    ss58Address  |-> to_ss58check_with_version(public_key, v)]]
    ELSE [mode   |-> "Text",
          header |-> "Public Key URI",
          uri    |-> u,
          lines  |-> << <<"Network ID/version", NetworkName(v)>>,
                        <<"Public key (hex)", format_public_key(public_key)>>,
                        <<"Account ID", format_account_id(s, public_key)>>,
                        <<"SS58 Address", to_ss58check_with_version(public_key, v)>> >>]

\* What one call prints: the if / else-if chain as a function of the arguments.
print_from_uri(s, u, pw, net, mode) ==
    IF from_phrase(s, u, pw).ok
    THEN PhraseOutput(s, u, from_phrase(s, u, pw), net, mode)
    ELSE IF from_string_with_seed(s, u, pw).ok
    THEN UriOutput(s, u, from_string_with_seed(s, u, pw), net, mode)
    ELSE IF from_string_with_version(s, u).ok
    THEN PublicOutput(s, u, from_string_with_version(s, u), net, mode)
    ELSE InvalidLine

printInputs == <<scheme, uri, password, network_override, network_supplied, output>>

\* Variant: a successful phrase stage does not end the chain.
TryPhrase_FallThrough ==
    /\ pc = "phrase"
    /\ attempted' = Append(attempted, "phrase")
    /\ LET r == from_phrase(scheme, uri, password) IN
         IF r.ok
         THEN /\ stdout' = Append(stdout,
                      PhraseOutput(scheme, uri, r, network_override, output))
              /\ pc' = "uri"
         ELSE /\ stdout' = stdout
              /\ pc' = "uri"
    /\ UNCHANGED <<printInputs, uriVars, msgVars>>

\* if let Ok((pair, seed)) = Pair::from_phrase(uri, password)
TryPhrase ==
    /\ pc = "phrase"
    /\ attempted' = Append(attempted, "phrase")
    /\ LET r == from_phrase(scheme, uri, password) IN
         IF r.ok
         THEN /\ stdout' = Append(stdout,
                      PhraseOutput(scheme, uri, r, network_override, output))
              /\ pc' = "returned"
         ELSE /\ stdout' = stdout
              /\ pc' = "uri"
    /\ UNCHANGED <<printInputs, uriVars, msgVars>>

\* else if let Ok((pair, seed)) = Pair::from_string_with_seed(uri, password)
TryUri ==
    /\ pc = "uri"
    /\ attempted' = Append(attempted, "uri")
    /\ LET r == from_string_with_seed(scheme, uri, password) IN
         IF r.ok
         THEN /\ stdout' = Append(stdout,
                      UriOutput(scheme, uri, r, network_override, output))
              /\ pc' = "returned"
         ELSE /\ stdout' = stdout
              /\ pc' = "public"
    /\ UNCHANGED <<printInputs, uriVars, msgVars>>

\* else if let Ok((public_key, _v)) = Pair::Public::from_string_with_version(uri)
TryPublic ==
    /\ pc = "public"
    /\ attempted' = Append(attempted, "public")
    /\ LET r == from_string_with_version(scheme, uri) IN
         IF r.ok
         THEN /\ stdout' = Append(stdout,
                      PublicOutput(scheme, uri, r, network_override, output))
              /\ pc' = "returned"
         ELSE /\ stdout' = stdout
              /\ pc' = "invalid"
    /\ UNCHANGED <<printInputs, uriVars, msgVars>>

\* Variant: the failure is reported as an empty public-key record.
PrintInvalid_Record ==
    /\ pc = "invalid"
    /\ stdout' = Append(stdout,
           [mode |-> "Json", obj |-> [publicKeyUri |-> uri]])
    /\ pc' = "returned"
    /\ UNCHANGED <<printInputs, attempted, uriVars, msgVars>>

\* else { println!("Invalid phrase/URI given"); }
PrintInvalid ==
    /\ pc = "invalid"
    /\ stdout' = Append(stdout, InvalidLine)
    /\ pc' = "returned"
    /\ UNCHANGED <<printInputs, attempted, uriVars, msgVars>>

----------------------------------------------------------------------------
(* read_uri *)

\* The characters of arguments, file contents and terminal input.
TextChars == {"k", " "}

IsWhitespace(c) == c = " "

\* All strings over chars of length lo..hi.
StringsOver(chars, lo, hi) == UNION {[1..n -> chars] : n \in lo..hi}

IoError == [ok |-> FALSE, value |-> <<>>, error |-> "Io"]
Ok(v)   == [ok |-> TRUE, value |-> v, error |-> ""]

\* Variant: whitespace is removed at both ends (str::trim).
RECURSIVE trim_end_BothEnds(_)
trim_end_BothEnds(str) ==
    IF str = <<>> THEN str
    ELSE IF IsWhitespace(str[Len(str)])
    THEN trim_end_BothEnds(SubSeq(str, 1, Len(str) - 1))
    ELSE IF IsWhitespace(str[1]) THEN trim_end_BothEnds(Tail(str))
    ELSE str

\* str::trim_end
RECURSIVE trim_end(_)
trim_end(str) ==
    IF str = <<>> THEN str
    ELSE IF IsWhitespace(str[Len(str)]) THEN trim_end(SubSeq(str, 1, Len(str) - 1))
    ELSE str

\* PathBuf::from(&uri).is_file()
is_file(filesystem, path) ==
    /\ IsSome(filesystem)
    /\ Unwrap(filesystem).path = path
    /\ Unwrap(filesystem).kind = "file"

\* std::fs::read_to_string(uri): fails on a file that cannot be read as text.
read_to_string(filesystem, path) ==
    IF Unwrap(filesystem).readable THEN Ok(Unwrap(filesystem).contents) ELSE IoError

\* read_uri(uri), given the filesystem and what the terminal delivers.
read_uri(arg, filesystem, terminal) ==
    IF IsSome(arg)
    THEN IF is_file(filesystem, Unwrap(arg))
         THEN LET r == read_to_string(filesystem, Unwrap(arg)) IN
              IF r.ok THEN Ok(trim_end(r.value)) ELSE r
         ELSE Ok(Unwrap(arg))
    ELSE terminal

\* One call of read_uri.
ReadUri ==
    /\ uri_result = None
    /\ uri_result' = Some(read_uri(uri_arg, fs, tty))
    /\ prompted' = IF IsSome(uri_arg) THEN prompted ELSE Append(prompted, "URI: ")
    /\ UNCHANGED <<uri_arg, fs, tty, printVars, msgVars>>

FileEntries ==
    {[path |-> p, kind |-> "dir", readable |-> FALSE, contents |-> <<>>] :
        p \in StringsOver(TextChars, 1, MaxPathLen)}
    \cup
    {[path |-> p, kind |-> "file", readable |-> FALSE, contents |-> <<>>] :
        p \in StringsOver(TextChars, 1, MaxPathLen)}
    \cup
    {[path |-> p, kind |-> "file", readable |-> TRUE, contents |-> c] :
        p \in StringsOver(TextChars, 1, MaxPathLen),
        c \in StringsOver(TextChars, 0, MaxTextLen)}

----------------------------------------------------------------------------
(* decode_hex and read_message *)

\* The bytes of the message text: '0', 'x', 'a' and 'z'.
HexTextBytes == {48, 120, 97, 122}

IsHexDigit(b) == b \in (48..57) \cup (97..102) \cup (65..70)

HexDigitValue(b) ==
    IF b \in 48..57 THEN b - 48 ELSE IF b \in 97..102 THEN b - 87 ELSE b - 55

\* Outcomes of decode_hex and read_message: Ok(bytes), Err(error), or a panic.
DecodeOk(bytes)  == [kind |-> "Ok", bytes |-> bytes, error |-> <<>>]
DecodeErr(e)     == [kind |-> "Err", bytes |-> <<>>, error |-> e]
Panic            == [kind |-> "Panic", bytes |-> <<>>, error |-> <<>>]

\* hex::decode: an odd length or a character that is no hex digit is an error.
hex_decode(text) ==
    IF Len(text) % 2 # 0 THEN DecodeErr(<<"OddLength">>)
    ELSE IF \E i \in 1..Len(text) : ~IsHexDigit(text[i])
    THEN DecodeErr(<<"InvalidHexCharacter">>)
    ELSE DecodeOk([i \in 1..(Len(text) \div 2) |->
                     16 * HexDigitValue(text[2 * i - 1]) + HexDigitValue(text[2 * i])])

\* decode_hex(message): message[..2] is out of range, and panics, when the
\* message is shorter than two bytes.
decode_hex(message) ==
    IF Len(message) < 2 THEN Panic
    ELSE LET stripped == IF SubSeq(message, 1, 2) = <<48, 120>>
                         THEN SubSeq(message, 3, Len(message))
                         ELSE message
             r == hex_decode(stripped)
         IN  IF r.kind = "Ok" THEN r
             ELSE DecodeErr(<<"Other", "Invalid hex">> \o r.error)

\* read_message(msg, should_decode), given what standard input delivers.
read_message(m, decode, input) ==
    IF IsSome(m) THEN decode_hex(Unwrap(m))
    ELSE IF ~input.ok THEN DecodeErr(<<"Io">>)
    ELSE IF decode THEN decode_hex(input.value)
    ELSE DecodeOk(input.value)

\* One call of read_message.
ReadMessage ==
    /\ msg_result = None
    /\ msg_result' = Some(read_message(msg, should_decode, stdin))
    /\ stdin_read' = ~IsSome(msg)
    /\ UNCHANGED <<msg, should_decode, stdin, printVars, uriVars>>

----------------------------------------------------------------------------
(* Initial states and specifications *)

UriIdle == /\ uri_arg = None /\ fs = None /\ tty = IoError
           /\ prompted = <<>> /\ uri_result = None

MsgIdle == /\ msg = None /\ should_decode = FALSE /\ stdin = IoError
           /\ stdin_read = FALSE /\ msg_result = None

PrintIdle == /\ scheme = "Sr25519" /\ uri = [form |-> "junk", body |-> <<>>]
             /\ password = None /\ network_override = DefaultVersion
             /\ network_supplied = FALSE /\ output = "Text"
             /\ pc = "returned" /\ attempted = <<>> /\ stdout = <<>>

\* The format a caller passes as network_override: the parameter is not an
\* Option, so a caller that was given no network passes the default format.
CallerNetwork(supplied) == IF supplied THEN Versions ELSE {DefaultVersion}

\* with_crypto_scheme!(scheme, print_from_uri(uri, password, network, output))
InitPrint ==
    /\ scheme \in CryptoScheme
    /\ uri \in Identifiers
    /\ password \in Passwords
    /\ network_supplied \in BOOLEAN
    /\ network_override \in CallerNetwork(network_supplied)
    /\ output \in OutputType
    /\ pc = "phrase"
    /\ attempted = <<>>
    /\ stdout = <<>>
    /\ UriIdle
    /\ MsgIdle

NextPrint == TryPhrase \/ TryUri \/ TryPublic \/ PrintInvalid

SpecPrint == InitPrint /\ [][NextPrint]_vars

InitUri ==
    /\ uri_arg \in {None} \cup {Some(a) : a \in StringsOver(TextChars, 0, MaxPathLen)}
    /\ fs \in {None} \cup {Some(e) : e \in FileEntries}
    /\ tty \in {IoError} \cup {Ok(t) : t \in StringsOver(TextChars, 0, MaxTextLen)}
    /\ prompted = <<>>
    /\ uri_result = None
    /\ PrintIdle
    /\ MsgIdle

NextUri == ReadUri

SpecUri == InitUri /\ [][NextUri]_vars

InitMsg ==
    /\ msg \in {None} \cup {Some(m) : m \in StringsOver(HexTextBytes, 0, MaxHexLen)}
    /\ should_decode \in BOOLEAN
    /\ stdin \in {IoError} \cup {Ok(t) : t \in StringsOver(HexTextBytes, 0, MaxHexLen)}
    /\ stdin_read = FALSE
    /\ msg_result = None
    /\ PrintIdle
    /\ UriIdle

NextMsg == ReadMessage

SpecMsg == InitMsg /\ [][NextMsg]_vars

\* print_from_uri is straight-line code over total capability calls: a
\* call that has started keeps taking steps until it returns.
FairSpecPrint == SpecPrint /\ WF_vars(NextPrint)

----------------------------------------------------------------------------
(* Reading the printed outcome *)

StageOrder == <<"phrase", "uri", "public">>

StageOk(st) ==
    CASE st = "phrase" -> from_phrase(scheme, uri, password).ok
      [] st = "uri"    -> from_string_with_seed(scheme, uri, password).ok
      [] st = "public" -> from_string_with_version(scheme, uri).ok

\* The first stage, in the fixed order, that accepts the identifier.
FirstOk ==
    IF StageOk("phrase") THEN "phrase"
    ELSE IF StageOk("uri") THEN "uri"
    ELSE IF StageOk("public") THEN "public"
    ELSE "none"

Returned == pc = "returned"

\* The field a label of the human-readable template stands for.
TextField(label) ==
    CASE label = "Secret phrase"      -> "secretPhrase"
      [] label = "Secret Key URI"     -> "secretKeyUri"
      [] label = "Public Key URI"     -> "publicKeyUri"
      [] label = "Secret seed"        -> "secretSeed"
      [] label = "Network ID/version" -> "networkId"
      [] label = "Public key (hex)"   -> "publicKey"
      [] label = "Account ID"         -> "accountId"
      [] label = "SS58 Address"       -> "ss58Address"

\* The fields a printed outcome carries.
Fields(rec) ==
    CASE rec.mode = "Json" -> DOMAIN rec.obj
      [] rec.mode = "Text" ->
           {TextField(rec.header)}
           \cup {TextField(rec.lines[i][1]) : i \in 1..Len(rec.lines)}
      [] OTHER -> {}

\* The value of a field of a printed record.
Field(rec, name) ==
    IF rec.mode = "Json" THEN rec.obj[name]
    ELSE IF TextField(rec.header) = name THEN rec.uri
    ELSE rec.lines[CHOOSE i \in 1..Len(rec.lines) :
                       TextField(rec.lines[i][1]) = name][2]

HexValue(c) == CHOOSE d \in 0..15 : HexDigit[d + 1] = c

\* text is "0x" followed by exactly two lowercase hex digits per byte.
IsHexOf(text, bytes) ==
    /\ Len(text) = 2 + 2 * Len(bytes)
    /\ text[1] = "0" /\ text[2] = "x"
    /\ \A i \in 1..Len(bytes) :
          /\ \E d \in 0..15 : HexDigit[d + 1] = text[2 * i + 1]
          /\ \E d \in 0..15 : HexDigit[d + 1] = text[2 * i + 2]
          /\ 16 * HexValue(text[2 * i + 1]) + HexValue(text[2 * i + 2]) = bytes[i]

PhraseFields == {"secretPhrase", "secretSeed", "publicKey", "accountId", "ss58Address"}
UriFields    == {"secretKeyUri", "secretSeed", "publicKey", "accountId", "ss58Address"}
PublicFields == {"publicKeyUri", "networkId", "publicKey", "accountId", "ss58Address"}

StageOfFields(fields) ==
    CASE fields = PhraseFields -> "phrase"
      [] fields = UriFields    -> "uri"
      [] fields = PublicFields -> "public"
      [] OTHER                 -> "none"

----------------------------------------------------------------------------
(* Properties of print_from_uri *)

\* C1: the stages are tried in the order phrase, URI, public key; a stage is
\* tried only after every earlier one returned an error; none is tried
\* twice; a call that has returned has printed exactly one outcome, the
\* record of the first accepting stage or the failure line if none accepts.
C1_StageOrder ==
    /\ Len(attempted) <= 3
    /\ attempted = SubSeq(StageOrder, 1, Len(attempted))
    /\ \A k \in 1..Len(attempted) : \A j \in 1..(k - 1) : ~StageOk(attempted[j])
    /\ Len(stdout) <= 1
    /\ stdout # <<>> => Returned
    /\ Returned =>
          /\ Len(stdout) = 1
          /\ FirstOk = "none" => stdout[1] = InvalidLine /\ attempted = StageOrder
          /\ \A k \in 1..3 :
                FirstOk = StageOrder[k] =>
                    /\ attempted = SubSeq(StageOrder, 1, k)
                    /\ StageOfFields(Fields(stdout[1])) = StageOrder[k]
                    /\ Field(stdout[1], "publicKey") =
                          Field(print_from_uri(scheme, uri, password,
                                               network_override, output), "publicKey")

\* A phrase, which the URI stage would accept too, was reported by the
\* phrase stage alone.
C1_Witness ==
    /\ Returned
    /\ StageOk("phrase") /\ StageOk("uri")
    /\ attempted = <<"phrase">>
    /\ Len(stdout) = 1

\* C3: when all three stages fail the call prints the line
\* 'Invalid phrase/URI given' and nothing else, with no identity field, for
\* every scheme and output mode, and the call returns.
C3_AllFail ==
    /\ [](FirstOk = "none" /\ Returned =>
              /\ stdout = <<InvalidLine>>
              /\ Fields(stdout[1]) = {})
    /\ [](FirstOk = "none" => stdout \in {<<>>, <<InvalidLine>>})
    /\ (FirstOk = "none" ~> Returned)

C3_Witness ==
    /\ Returned
    /\ FirstOk = "none"
    /\ attempted = StageOrder
    /\ stdout = <<InvalidLine>>
    /\ scheme = "Ecdsa" /\ output = "Json"

\* C4: the fields printed are exactly those of the stage that succeeded, in
\* both output modes; a URI or public-key record has no secretPhrase and a
\* public-key record has no secretSeed.
C4_FieldSets ==
    Returned /\ Len(stdout) = 1 =>
        LET fields == Fields(stdout[1]) IN
        /\ FirstOk = "phrase" => fields = PhraseFields
        /\ FirstOk = "uri"    => fields = UriFields
        /\ FirstOk = "public" => fields = PublicFields
        /\ FirstOk \in {"uri", "public"} => "secretPhrase" \notin fields
        /\ FirstOk = "public" => "secretSeed" \notin fields
        /\ FirstOk # "none" => StageOfFields(fields) = FirstOk

\* A raw seed, rejected as a phrase, was reported by the URI stage in the
\* human-readable mode.
C4_Witness ==
    /\ Returned
    /\ uri.form = "seed"
    /\ output = "Text"
    /\ Len(stdout) = 1
    /\ Fields(stdout[1]) = UriFields

\* C7: a phrase record's secretSeed is the 0x-hex of the seed from_phrase
\* returned; a URI record's secretSeed is the 0x-hex of the seed when
\* from_string_with_seed returned one and 'n/a' when it returned none, never
\* a zero seed; both output modes report the same secretSeed.
C7_SeedPresence ==
    Returned /\ Len(stdout) = 1 =>
        /\ FirstOk = "phrase" =>
              /\ IsHexOf(Field(stdout[1], "secretSeed"),
                         from_phrase(scheme, uri, password).seed)
              /\ Field(stdout[1], "secretSeed") # NotAvailable
        /\ FirstOk = "uri" =>
              LET seed == from_string_with_seed(scheme, uri, password).seed IN
              /\ IsSome(seed) => IsHexOf(Field(stdout[1], "secretSeed"), Unwrap(seed))
              /\ ~IsSome(seed) =>
                    /\ Field(stdout[1], "secretSeed") = NotAvailable
                    /\ ~IsHexOf(Field(stdout[1], "secretSeed"), <<0, 0>>)
        /\ FirstOk \in {"phrase", "uri"} =>
              \A m \in OutputType :
                  Field(print_from_uri(scheme, uri, password, network_override, m),
                        "secretSeed") = Field(stdout[1], "secretSeed")

\* A derived key, whose seed is not recoverable, was reported with 'n/a'.
C7_Witness ==
    /\ Returned
    /\ FirstOk = "uri"
    /\ ~IsSome(from_string_with_seed(scheme, uri, password).seed)
    /\ Len(stdout) = 1
    /\ Field(stdout[1], "secretSeed") = NotAvailable

C10_OverrideUnread ==
    Returned /\ Len(stdout) = 1 =>
        /\ FirstOk \in {"phrase", "uri"} =>
              /\ \A n \in Versions :
                    print_from_uri(scheme, uri, password, n, output) = stdout[1]
              /\ Field(stdout[1], "ss58Address").body[1] = DefaultVersion
        /\ FirstOk = "public" =>
              \A p \in Passwords :
                  print_from_uri(scheme, uri, p, network_override, output) = stdout[1]

\* A phrase was resolved under an override other than the default format.
C10_Witness ==
    /\ Returned
    /\ FirstOk = "phrase"
    /\ network_override # DefaultVersion
    /\ Len(stdout) = 1

\* C2: in the public-key stage the version of networkId and ss58Address is
\* the override when the caller supplied one explicitly, and otherwise the
\* version embedded in the identifier.
C2_VersionUsed ==
    Returned /\ FirstOk = "public" /\ Len(stdout) = 1 =>
        LET r == from_string_with_version(scheme, uri)
            v == IF network_supplied THEN network_override ELSE r.version
        IN  /\ Field(stdout[1], "networkId") = NetworkName(v)
            /\ Field(stdout[1], "ss58Address") = to_ss58check_with_version(r.public, v)

----------------------------------------------------------------------------
(* Properties of read_uri *)

UriDone == IsSome(uri_result)

\* short is long without its trailing whitespace: a prefix of long that does
\* not end in whitespace, the rest of long being whitespace only.
IsTrailingTrimOf(short, long) ==
    /\ Len(short) <= Len(long)
    /\ short = SubSeq(long, 1, Len(short))
    /\ \A i \in (Len(short) + 1)..Len(long) : IsWhitespace(long[i])
    /\ short # <<>> => ~IsWhitespace(short[Len(short)])

\* C8 as stated: an argument naming an existing file yields the file's
\* contents without trailing whitespace; another argument is returned
\* verbatim; without an argument the result is what the prompt 'URI: '
\* returns, or an I/O error; the filesystem is never changed.
C8_AsStated ==
    /\ [](UriDone =>
            LET res == Unwrap(uri_result) IN
            /\ IsSome(uri_arg) /\ is_file(fs, Unwrap(uri_arg)) =>
                  res.ok /\ IsTrailingTrimOf(res.value, Unwrap(fs).contents)
            /\ IsSome(uri_arg) /\ ~is_file(fs, Unwrap(uri_arg)) =>
                  res = Ok(Unwrap(uri_arg))
            /\ ~IsSome(uri_arg) => res = tty /\ prompted = <<"URI: ">>)
    /\ [][fs' = fs]_vars

\* C8: an argument naming an existing file that can be read yields the
\* file's contents without trailing whitespace (leading and interior
\* whitespace kept), and the I/O error when the file cannot be read; an
\* argument that names no file is returned verbatim; without an argument
\* the result is what the prompt 'URI: ' returns, or an I/O error; the
\* filesystem is never changed.
C8_ReadUri ==
    /\ [](UriDone =>
            LET res == Unwrap(uri_result) IN
            /\ IsSome(uri_arg) /\ is_file(fs, Unwrap(uri_arg)) =>
                  IF Unwrap(fs).readable
                  THEN res.ok /\ IsTrailingTrimOf(res.value, Unwrap(fs).contents)
                  ELSE res = IoError
            /\ IsSome(uri_arg) /\ ~is_file(fs, Unwrap(uri_arg)) =>
                  res = Ok(Unwrap(uri_arg))
            /\ ~IsSome(uri_arg) => res = tty /\ prompted = <<"URI: ">>)
    /\ [](IsSome(uri_arg) => prompted = <<>>)
    /\ [][fs' = fs]_vars

\* A file with leading and trailing whitespace was read.
C8_Witness ==
    /\ UriDone
    /\ IsSome(uri_arg)
    /\ is_file(fs, Unwrap(uri_arg))
    /\ Unwrap(fs).contents = <<" ", "k", " ">>
    /\ Unwrap(uri_result) = Ok(<<" ", "k">>)

----------------------------------------------------------------------------
(* Properties of decode_hex and read_message *)

MsgDone == IsSome(msg_result)

\* The text without one leading "0x".
WithoutPrefix(text) ==
    IF Len(text) >= 2 /\ text[1] = 48 /\ text[2] = 120
    THEN SubSeq(text, 3, Len(text)) ELSE text

\* result is what hex-decoding text must give: the bytes of a well-formed
\* text, an error for any other.
IsHexDecodingOf(result, text) ==
    LET t == WithoutPrefix(text) IN
    IF Len(t) % 2 = 0 /\ \A i \in 1..Len(t) : IsHexDigit(t[i])
    THEN /\ result.kind = "Ok"
         /\ Len(result.bytes) = Len(t) \div 2
         /\ \A i \in 1..Len(result.bytes) :
               result.bytes[i] =
                   16 * HexDigitValue(t[2 * i - 1]) + HexDigitValue(t[2 * i])
    ELSE /\ result.kind = "Err"
         /\ result.bytes = <<>>

\* The text this call hands to decode_hex, if any.
DecodedText ==
    IF IsSome(msg) THEN msg
    ELSE IF stdin.ok /\ should_decode THEN Some(stdin.value)
    ELSE None

\* C5: decode_hex is total: for every text, the empty one and those of
\* length 1 included, it returns the decoded bytes or an error and never
\* aborts; one leading '0x' is removed before decoding; '0x0a0b' decodes
\* to 0x0a, 0x0b.
C5_DecodeHexTotal ==
    /\ decode_hex(<<48, 120, 48, 97, 48, 98>>) = DecodeOk(<<10, 11>>)
    /\ MsgDone /\ IsSome(DecodedText) =>
          /\ Unwrap(msg_result).kind \in {"Ok", "Err"}
          /\ IsHexDecodingOf(Unwrap(msg_result), Unwrap(DecodedText))
          /\ Unwrap(msg_result).kind = "Err" =>
                /\ Len(Unwrap(msg_result).error) = 3
                /\ Unwrap(msg_result).error[3] \in {"OddLength", "InvalidHexCharacter"}

\* C6: a present message argument is hex-decoded whatever should_decode is,
\* and standard input is not read; without the argument the bytes of
\* standard input are hex-decoded iff should_decode, and returned unchanged
\* otherwise; a decode failure is returned as an error without bytes.
C6_ReadMessage ==
    MsgDone =>
        LET res == Unwrap(msg_result) IN
        /\ IsSome(msg) => IsHexDecodingOf(res, Unwrap(msg)) /\ ~stdin_read
        /\ ~IsSome(msg) /\ stdin.ok =>
              /\ stdin_read
              /\ IF should_decode THEN IsHexDecodingOf(res, stdin.value)
                 ELSE res = DecodeOk(stdin.value)

====
